---- MODULE Spec2Model ----
(***************************************************************************)
(* Model of the seeking-trouble core: ChangeSet (src/src/change_set.rs)    *)
(* and CodeRegion (src/src/code_region.rs).                                *)
(*                                                                         *)
(* A behaviour constructs one object, ChangeSet::new(filename, source) or  *)
(* CodeRegion::new(source), and then calls its methods in any order.       *)
(* Rust ranges a..b are records [start |-> a, end |-> b]; Option values    *)
(* are sequences of length 0 (None) or 1 (Some).                           *)
(***************************************************************************)
EXTENDS Integers, Sequences, FiniteSets, TLC

VARIABLES
    self,          \* which object the caller constructed
    filename,      \* ChangeSet.filename
    code_lines,    \* ChangeSet.code : Vec<String>
    lines,         \* ChangeSet.lines : Vec<usize>
    code,          \* CodeRegion.code : String (bytes)
    tree,          \* CodeRegion.tree : the parsed syntax tree
    query,         \* the line range the caller passes to the extract methods
    pc,            \* "idle", "extract" (inside extract_compounds_by), "panicked"
    filter,        \* extract_compounds_by: the filter argument
    next_range,    \* extract_compounds_by: local next_range
    compounds,     \* extract_compounds_by: local compounds
    visited,       \* the nodes the current call matched, pushed or not
    iters,         \* loop bodies run by the current extract_compounds_by call
    lookups,       \* extract_next_from_range calls made by the current call
    ret,           \* the last call and what it returned
    last_ranges,   \* Some(result) of the last ranges() since the last add_line
    last_extract   \* per public extract method, Some(result) of its last call

vars == <<self, filename, code_lines, lines, code, tree, query, pc, filter,
          next_range, compounds, visited, iters, lookups, ret, last_ranges,
          last_extract>>

cs_vars == <<filename, code_lines, lines, last_ranges>>
cr_vars == <<code, tree, query, filter, next_range, compounds, visited, iters,
             lookups, last_extract>>

-----------------------------------------------------------------------------
(* Bounds *)

\* longest source text handed to ChangeSet::new, in characters
MaxSrcLen == 3
\* add_line arguments are drawn from 0..MaxLine
MaxLine == 3
\* most add_line calls on one ChangeSet
MaxTouched == 3
\* rows of the source text handed to CodeRegion::new
MaxRows == 3
\* most top-level nodes of a parsed tree
MaxNodes == 2

-----------------------------------------------------------------------------
(* Helpers over sequences *)

Elems(s) == {s[i] : i \in 1..Len(s)}

RECURSIVE SeqsUpTo(_, _)
SeqsUpTo(S, n) ==
    IF n = 0 THEN {<<>>}
    ELSE LET shorter == SeqsUpTo(S, n - 1)
         IN  shorter \cup {Append(s, x) : s \in {t \in shorter : Len(t) = n - 1}, x \in S}

None == <<>>
Some(x) == <<x>>

-----------------------------------------------------------------------------
(* ChangeSet *)

Chars == {"a", "b", "\n"}
Sources == SeqsUpTo(Chars, MaxSrcLen)
Filenames == {"", "main.c"}

\* index of the first "\n" of s, or 0
FirstNewline(s) ==
    IF \E i \in 1..Len(s) : s[i] = "\n"
    THEN CHOOSE i \in 1..Len(s) : s[i] = "\n" /\ \A j \in 1..(i - 1) : s[j] # "\n"
    ELSE 0

\* str::lines(): the lines of s without their terminators; a final line
\* needs no terminator and a trailing terminator opens no empty line
RECURSIVE str_lines(_)
str_lines(s) ==
    IF s = <<>> THEN <<>>
    ELSE LET k == FirstNewline(s)
         IN  IF k = 0 THEN <<s>>
             ELSE <<SubSeq(s, 1, k - 1)>> \o str_lines(SubSeq(s, k + 1, Len(s)))

\* ChangeSet::new
ChangeSet_new(name, source) ==
    [filename |-> name, code |-> str_lines(source), lines |-> <<>>]

\* the loop of ranges(): i is the position of the iterator, start and next
\* the two locals, acc the vector built so far
RECURSIVE ranges_loop(_, _, _, _, _)
ranges_loop(ls, i, start, next, acc) ==
    IF i > Len(ls)
    THEN Append(acc, [start |-> start, end |-> next + 1])
    ELSE LET end == ls[i]
         IN  ranges_loop(ls, i + 1, start, end,
                         IF next + 1 # end
                         THEN Append(acc, [start |-> start, end |-> next + 1])
                         ELSE acc)

\* ranges() without the push that follows the loop
ranges_no_final_push(ls) ==
    IF ls = <<>> THEN <<>>
    ELSE LET all == ranges_loop(ls, 2, ls[1], ls[1], <<>>)
         IN  SubSeq(all, 1, Len(all) - 1)

\* ChangeSet::ranges
ranges(ls) ==
    IF ls = <<>> THEN <<>>
    ELSE ranges_loop(ls, 2, ls[1], ls[1], <<>>)

\* [String]::join("")
RECURSIVE join(_)
join(strs) == IF strs = <<>> THEN <<>> ELSE Head(strs) \o join(Tail(strs))

\* the slice index self.code[r] panics when r.start > r.end or r.end > len
slice_panics(v, r) == r.start > r.end \/ r.end > Len(v)

\* self.code[r]
slice(v, r) == SubSeq(v, r.start + 1, r.end)

\* [String]::join("\n")
RECURSIVE join_newline(_)
join_newline(strs) ==
    IF strs = <<>> THEN <<>>
    ELSE IF Len(strs) = 1 THEN Head(strs)
    ELSE Head(strs) \o <<"\n">> \o join_newline(Tail(strs))

\* the closure of text_ranges joining the lines with "\n"
text_of_range_newline(v, r) == join_newline(slice(v, r))

\* the closure of text_ranges: |r| self.code[r.clone()].join("")
text_of_range(v, r) == join(slice(v, r))

\* ChangeSet::text_ranges: the vector of texts, or a panic of the slice index
text_ranges(v, ls) ==
    LET rs == ranges(ls)
    IN  IF \E i \in 1..Len(rs) : slice_panics(v, rs[i])
        THEN [status |-> "panic", value |-> <<>>]
        ELSE [status |-> "ok", value |-> [i \in 1..Len(rs) |-> text_of_range(v, rs[i])]]

\* ret.again: the call repeated a read whose inputs had not changed since
\* the value returned has a field of its own per type: line (the argument
\* of add_line), ranges, texts (of text_ranges), regions (of the extracts)
NoCall ==
    [op |-> "none", status |-> "none", again |-> FALSE,
     line |-> 0, ranges |-> <<>>, texts |-> <<>>, regions |-> <<>>,
     first |-> [start |-> 0, end |-> 0], second |-> [start |-> 0, end |-> 0]]

InitChangeSet ==
    /\ self = "ChangeSet"
    /\ \E name \in Filenames, source \in Sources :
          LET cs == ChangeSet_new(name, source)
          IN  /\ filename = cs.filename
              /\ code_lines = cs.code
              /\ lines = cs.lines
    /\ last_ranges = None

\* the CodeRegion fields of a behaviour that never constructs one
NoCodeRegion ==
    /\ code = <<>>
    /\ tree = [root |-> [sb |-> 0, eb |-> 0, kind |-> "translation_unit"], children |-> <<>>]
    /\ query = [start |-> 0, end |-> 0]
    /\ filter = "none"
    /\ next_range = [start |-> 0, end |-> 0]
    /\ compounds = <<>>
    /\ visited = <<>>
    /\ iters = 0
    /\ lookups = 0
    /\ last_extract = [f \in {"compound", "functions"} |-> None]

\* ls, sorted, with n put in its place
InsertSorted(ls, n) ==
    LET k == Cardinality({i \in 1..Len(ls) : ls[i] <= n})
    IN  SubSeq(ls, 1, k) \o <<n>> \o SubSeq(ls, k + 1, Len(ls))

\* an add_line that keeps the touched lines sorted
AddLine_sorted ==
    /\ self = "ChangeSet" /\ pc = "idle"
    /\ Len(lines) < MaxTouched
    /\ \E line_number \in 0..MaxLine :
          /\ lines' = InsertSorted(lines, line_number)
          /\ ret' = [NoCall EXCEPT !.op = "add_line", !.status = "ok",
                                  !.line = line_number]
    /\ last_ranges' = None
    /\ UNCHANGED <<self, filename, code_lines, pc, code, tree, query, filter,
                   next_range, compounds, visited, iters, lookups, last_extract>>

\* ChangeSet::add_line
AddLine ==
    /\ self = "ChangeSet" /\ pc = "idle"
    /\ Len(lines) < MaxTouched
    /\ \E line_number \in 0..MaxLine :
          /\ lines' = Append(lines, line_number)
          /\ ret' = [NoCall EXCEPT !.op = "add_line", !.status = "ok",
                                  !.line = line_number]
    /\ last_ranges' = None
    /\ UNCHANGED <<self, filename, code_lines, pc>>
    /\ UNCHANGED cr_vars

\* a ranges() call that drains the touched lines it reads
Ranges_draining ==
    /\ self = "ChangeSet" /\ pc = "idle"
    /\ ret' = [NoCall EXCEPT !.op = "ranges", !.status = "ok",
                             !.ranges = ranges(lines), !.again = last_ranges # None]
    /\ last_ranges' = Some(ranges(lines))
    /\ lines' = <<>>
    /\ UNCHANGED <<self, filename, code_lines, pc, code, tree, query, filter,
                   next_range, compounds, visited, iters, lookups, last_extract>>

\* a call of ChangeSet::ranges
Ranges ==
    /\ self = "ChangeSet" /\ pc = "idle"
    /\ ret' = [NoCall EXCEPT !.op = "ranges", !.status = "ok",
                             !.ranges = ranges(lines), !.again = last_ranges # None]
    /\ last_ranges' = Some(ranges(lines))
    /\ UNCHANGED <<self, filename, code_lines, lines, pc>>
    /\ UNCHANGED cr_vars

\* a call of ChangeSet::text_ranges
TextRanges ==
    /\ self = "ChangeSet" /\ pc = "idle"
    /\ LET r == text_ranges(code_lines, lines)
       IN  /\ ret' = [NoCall EXCEPT !.op = "text_ranges", !.status = r.status,
                                     !.texts = r.value]
           /\ pc' = IF r.status = "panic" THEN "panicked" ELSE "idle"
    /\ UNCHANGED <<self, filename, code_lines, lines, last_ranges>>
    /\ UNCHANGED cr_vars

-----------------------------------------------------------------------------
(* CodeRegion *)
(* The source text is a sequence of bytes laid out in rows of RowLen       *)
(* bytes, the last byte of a full row being its newline; byte i of the     *)
(* text holds the value i, so a slice of the text shows which bytes it     *)
(* took.  The tree is what the parser returns for it: a root node and its  *)
(* children, the top-level nodes, each with its byte span and its kind.    *)

\* the loop counters of one call stay below this (the loop is left earlier)
MaxIters == MaxRows + 2

\* a row of the text: code, then the newline
Row == <<"x", "\n">>
RowLen == Len(Row)
MaxBytes == MaxRows * RowLen

Kinds == {"function_definition", "type_definition"}

Point(r, c) == [row |-> r, column |-> c]
PointOf(byte) == Point(byte \div RowLen, byte % RowLen)
point_gt(a, b) == a.row > b.row \/ (a.row = b.row /\ a.column > b.column)

\* Node::start_position, Node::end_position, Node::start_byte, Node::end_byte
start_position(node) == PointOf(node.sb)
end_position(node) == PointOf(node.eb)
start_byte(node) == node.sb
end_byte(node) == node.eb

IsNewline(byte) == byte % RowLen = RowLen - 1

\* a node starts on a byte that is no newline, is not empty and may end
\* either inside a row or right after a row's newline
NodesOf(eof) ==
    {[sb |-> s, eb |-> e, kind |-> k] :
        s \in {b \in 0..(eof - 1) : ~IsNewline(b)}, e \in 1..eof, k \in Kinds}

Ordered(ns) ==
    /\ \A i \in 1..Len(ns) : ns[i].sb < ns[i].eb
    /\ \A i \in 1..(Len(ns) - 1) : ns[i].eb <= ns[i + 1].sb

\* the root spans from the first token of the text to its end
RootOf(ns, eof) ==
    [sb |-> IF ns = <<>> THEN eof ELSE ns[1].sb, eb |-> eof, kind |-> "translation_unit"]

\* what Parser::parse can return for a text of eof bytes
TreesOf(eof) ==
    {[root |-> RootOf(ns, eof), children |-> ns] :
        ns \in {c \in SeqsUpTo(NodesOf(eof), MaxNodes) : Ordered(c)}}

\* CodeRegion::new
CodeRegion_new(eof, t) == [code |-> [i \in 1..eof |-> i - 1], tree |-> t]

\* Range::contains, Range::is_empty
contains(r, x) == r.start <= x /\ x < r.end
is_empty(r) == ~(r.start < r.end)

\* has_intersection with the two tests joined by "and"
has_intersection_and(first, second) ==
    contains(second, first.start) /\ contains(first, second.start)

has_intersection(first, second) ==
    contains(second, first.start) \/ contains(first, second.start)

\* TreeCursor::goto_first_child_for_point from the root: the index of the
\* first child that extends beyond the point, or 0 and the cursor stays
goto_first_child_for_point(t, point) ==
    LET beyond == {i \in 1..Len(t.children) : point_gt(end_position(t.children[i]), point)}
    IN  IF beyond = {} THEN 0 ELSE CHOOSE i \in beyond : \A j \in beyond : i <= j

\* cursor.node() after the move
cursor_node(t, idx) == IF idx = 0 THEN t.root ELSE t.children[idx]

\* CodeRegion::extract_next_from_range
extract_next_from_range(t, range) ==
    LET current_node == cursor_node(t, goto_first_child_for_point(t, Point(range.start, 0)))
        line_range == [start |-> start_position(current_node).row,
                       end |-> end_position(current_node).row]
    IN  IF has_intersection(range, line_range) THEN Some(current_node) ELSE None

\* CodeRegion::extract_code_from_node
extract_code_from_node(c, node) == SubSeq(c, start_byte(node) + 1, end_byte(node))

\* the filter of extract_functions letting every node pass
filter_passes_any(f, node) == TRUE

\* the filters of extract_compound and extract_functions
filter_passes(f, node) ==
    IF f = "functions" THEN node.kind = "function_definition" ELSE TRUE

\* the range left after a node, starting on the node's last row
range_after_same_row(node, r) == [start |-> end_position(node).row, end |-> r.end]

\* the loop condition without the test of the range
loop_condition_code_only(c, r) == c # <<>>

\* the range left after a node: (entity.range().end_point.row+1)..next_range.end
range_after(node, r) == [start |-> end_position(node).row + 1, end |-> r.end]

\* the condition of the while loop of extract_compounds_by
loop_condition(c, r) == c # <<>> /\ ~is_empty(r)

Queries == {[start |-> s, end |-> e] : s \in 0..MaxRows, e \in 0..MaxRows}

InitCodeRegion ==
    /\ self = "CodeRegion"
    /\ \E eof \in 0..MaxBytes :
          \E t \in TreesOf(eof) :
             LET cr == CodeRegion_new(eof, t)
             IN  code = cr.code /\ tree = cr.tree
    /\ query \in Queries
    /\ filter = "none"
    /\ next_range = [start |-> 0, end |-> 0]
    /\ compounds = <<>>
    /\ visited = <<>>
    /\ iters = 0
    /\ lookups = 0
    /\ last_extract = [f \in {"compound", "functions"} |-> None]

\* the ChangeSet fields of a behaviour that never constructs one
NoChangeSet ==
    /\ filename = ""
    /\ code_lines = <<>>
    /\ lines = <<>>
    /\ last_ranges = None

\* entry of extract_compounds_by(range, filter)
Enter(f) ==
    /\ self = "CodeRegion" /\ pc = "idle"
    /\ pc' = "extract"
    /\ filter' = f
    /\ next_range' = query
    /\ compounds' = <<>>
    /\ visited' = <<>>
    /\ iters' = 0
    /\ lookups' = 0
    /\ UNCHANGED <<self, code, tree, query, ret, last_extract>>
    /\ UNCHANGED cs_vars

\* a call of CodeRegion::extract_compound
ExtractCompound == Enter("compound")

\* a call of CodeRegion::extract_functions
ExtractFunctions == Enter("functions")

\* return of extract_compounds_by
Return ==
    /\ pc' = "idle"
    /\ ret' = [NoCall EXCEPT !.op = filter, !.status = "ok", !.regions = compounds,
                             !.again = last_extract[filter] # None]
    /\ last_extract' = [last_extract EXCEPT
                           ![filter] = Some([value |-> compounds, visited |-> visited])]

\* one run of the loop body that finds a node
ExtractIterate ==
    /\ pc = "extract"
    /\ iters < MaxIters
    /\ loop_condition(code, next_range)
    /\ LET found == extract_next_from_range(tree, next_range)
       IN  /\ found # None
           /\ compounds' = IF filter_passes(filter, found[1])
                           THEN Append(compounds, extract_code_from_node(code, found[1]))
                           ELSE compounds
           /\ visited' = Append(visited, found[1])
           /\ next_range' = range_after(found[1], next_range)
    /\ iters' = iters + 1
    /\ lookups' = lookups + 1
    /\ UNCHANGED <<self, code, tree, query, pc, filter, ret, last_extract>>
    /\ UNCHANGED cs_vars

\* the run of the loop body that finds no node and breaks
ExtractBreak ==
    /\ pc = "extract"
    /\ loop_condition(code, next_range)
    /\ extract_next_from_range(tree, next_range) = None
    /\ iters' = iters + 1
    /\ lookups' = lookups + 1
    /\ Return
    /\ UNCHANGED <<self, code, tree, query, filter, next_range, compounds, visited>>
    /\ UNCHANGED cs_vars

\* the loop condition fails
ExtractExit ==
    /\ pc = "extract"
    /\ ~loop_condition(code, next_range)
    /\ Return
    /\ UNCHANGED <<self, code, tree, query, filter, next_range, compounds, visited,
                   iters, lookups>>
    /\ UNCHANGED cs_vars

\* no object constructed: the caller uses the free function has_intersection
InitFree == self = "none"

\* a call of has_intersection(first, second)
HasIntersection ==
    /\ self = "none" /\ pc = "idle"
    /\ \E first \in Queries, second \in Queries :
          ret' = [NoCall EXCEPT !.op = "has_intersection",
                                !.first = first, !.second = second,
                                !.status = IF has_intersection(first, second)
                                           THEN "true" ELSE "false"]
    /\ UNCHANGED <<self, pc>>
    /\ UNCHANGED cs_vars
    /\ UNCHANGED cr_vars

Init ==
    /\ pc = "idle"
    /\ ret = NoCall
    /\ \/ InitChangeSet /\ NoCodeRegion
       \/ InitCodeRegion /\ NoChangeSet
       \/ InitFree /\ NoCodeRegion /\ NoChangeSet

Next ==
    \/ AddLine
    \/ Ranges
    \/ TextRanges
    \/ ExtractCompound
    \/ ExtractFunctions
    \/ ExtractIterate
    \/ ExtractBreak
    \/ ExtractExit
    \/ HasIntersection

Spec == Init /\ [][Next]_vars

-----------------------------------------------------------------------------
(* Properties of ChangeSet *)

NonDecreasing(ls) == \A i \in 1..(Len(ls) - 1) : ls[i] <= ls[i + 1]

\* the lines inside the half-open interval r, and inside any interval of rs
LinesOf(r) == {x \in 0..(MaxLine + 1) : r.start <= x /\ x < r.end}
Covered(rs) == UNION {LinesOf(rs[i]) : i \in 1..Len(rs)}

\* the maximal runs of consecutive integers of a set, named by their first line
RunStarts(S) == {x \in S : (x - 1) \notin S}

\* ranges() was the last call, so ret.ranges is ranges() of the lines as they are
RangesReturned == self = "ChangeSet" /\ ret.op = "ranges"

\* C1: for every non-decreasing sequence of appended lines the intervals of
\* ranges() cover exactly the appended values: every appended line is inside
\* some interval and no interval holds a line that was never appended.
C1_RangesCoverExactly ==
    (RangesReturned /\ NonDecreasing(lines)) => Covered(ret.ranges) = Elems(lines)

\* C2: for every non-decreasing sequence of appended lines ranges() returns one
\* interval per maximal run of consecutive integers: as many intervals as runs,
\* pairwise disjoint and ascending, every appended line in exactly one.
C2_OneIntervalPerRun ==
    (RangesReturned /\ NonDecreasing(lines)) =>
        /\ Len(ret.ranges) = Cardinality(RunStarts(Elems(lines)))
        /\ \A i \in 1..(Len(ret.ranges) - 1) : ret.ranges[i].end <= ret.ranges[i + 1].start
        /\ \A x \in Elems(lines) :
              Cardinality({i \in 1..Len(ret.ranges) : x \in LinesOf(ret.ranges[i])}) = 1

\* some interval of ranges() reaches past the stored source lines
OutOfSource ==
    \E i \in 1..Len(ranges(lines)) :
        \/ ranges(lines)[i].end > Len(code_lines)
        \/ ranges(lines)[i].start > Len(code_lines)

\* C5: text_ranges() on a ChangeSet with an interval past the stored source
\* returns an explicit error value; it neither truncates the text nor aborts,
\* and the source lines and touched lines stay as they were.
C5_OutOfRangeIsAnErrorValue ==
    (self = "ChangeSet" /\ ret.op = "text_ranges" /\ OutOfSource) =>
        ret.status = "error" /\ pc = "idle"

\* every interval of ranges() lies within the stored source lines
WithinSource ==
    \A i \in 1..Len(ranges(lines)) :
        /\ ranges(lines)[i].start <= ranges(lines)[i].end
        /\ ranges(lines)[i].end <= Len(code_lines)

\* the characters of the source lines lo .. hi-1 (zero-based), in order
RECURSIVE ConcatOfLines(_, _)
ConcatOfLines(lo, hi) ==
    IF lo >= hi THEN <<>> ELSE code_lines[lo + 1] \o ConcatOfLines(lo + 1, hi)

\* C8: when every interval lies within the stored source, text_ranges()
\* returns one string per interval of ranges(), in the same order, each the
\* concatenation of exactly the source lines of that interval (end-exclusive);
\* touching only line k gives one region holding line k's content.
C8_TextRangesSliceTheSource ==
    (self = "ChangeSet" /\ ret.op = "text_ranges" /\ WithinSource) =>
        /\ ret.status = "ok"
        /\ Len(ret.texts) = Len(ranges(lines))
        /\ \A i \in 1..Len(ret.texts) :
              ret.texts[i] = ConcatOfLines(ranges(lines)[i].start, ranges(lines)[i].end)
        /\ Len(lines) = 1 => ret.texts = <<code_lines[lines[1] + 1]>>

\* text_ranges() returned the text of an interval of two source lines
C8_Witness ==
    /\ self = "ChangeSet" /\ ret.op = "text_ranges" /\ WithinSource
    /\ lines = <<0, 1>>
    /\ Len(code_lines) = 2 /\ code_lines[1] # <<>> /\ code_lines[2] # <<>>

\* C9: ranges() on no touched lines returns the empty sequence, and on exactly
\* one touched line L returns the single interval [L, L+1).
C9_EmptyAndSingleLine ==
    RangesReturned =>
        /\ lines = <<>> => ret.ranges = <<>>
        /\ Len(lines) = 1 => ret.ranges = <<[start |-> lines[1], end |-> lines[1] + 1]>>

\* ranges() returned for a single touched line
C9_Witness == RangesReturned /\ Len(lines) = 1 /\ lines[1] > 0

-----------------------------------------------------------------------------
(* Properties of CodeRegion *)

\* extract_compound / extract_functions was the last call to return
CompoundReturned == self = "CodeRegion" /\ pc = "idle" /\ ret.op = "compound"
ExtractReturned == self = "CodeRegion" /\ pc = "idle" /\ ret.op \in {"compound", "functions"}

\* the rows a node spans, from the row of its first byte to the row of its
\* last byte, and whether a range shares one of them
RowsOf(node) == PointOf(node.sb).row .. PointOf(node.eb - 1).row
Touches(node, r) == \E x \in RowsOf(node) : contains(r, x)

TextOf(node) == SubSeq(code, node.sb + 1, node.eb)

\* C3: for every source and every non-empty range, extract_compound returns
\* the text of every top-level node whose row span (end row inclusive) shares
\* a line with the range, also a node touched only on its last line and the
\* sibling after a node that ends on the range's first line.
C3_EveryTouchedNodeIsReturned ==
    (CompoundReturned /\ ~is_empty(query)) =>
        \A i \in 1..Len(tree.children) :
            Touches(tree.children[i], query) =>
                \E k \in 1..Len(ret.regions) : ret.regions[k] = TextOf(tree.children[i])

\* the texts of the nodes of ns that are function definitions, in order
RECURSIVE FunctionTexts(_)
FunctionTexts(ns) ==
    IF ns = <<>> THEN <<>>
    ELSE IF Head(ns).kind = "function_definition"
         THEN <<TextOf(Head(ns))>> \o FunctionTexts(Tail(ns))
         ELSE FunctionTexts(Tail(ns))

BothExtracted == last_extract["compound"] # None /\ last_extract["functions"] # None

RangeLen(r) == IF r.start < r.end THEN r.end - r.start ELSE 0

\* str::lines().count() of the source text
LineCount == (Len(code) + RowLen - 1) \div RowLen

\* C6 as stated: the loop bodies run by a call are at most the length of the
\* original range and at most the source line count.
C6_ItersWithinRangeAndLineCount ==
    iters <= RangeLen(query) /\ iters <= LineCount

\* the loop bodies run so far are at most the length of the original range
\* and the source line count plus one, those that found a node at most the
\* source line count; so the guard iters < MaxIters never stops the loop
LoopBounds ==
    /\ iters <= RangeLen(query)
    /\ iters <= LineCount + 1
    /\ Len(visited) <= LineCount
    /\ iters < MaxIters

\* C6, amended: every call returns, because each loop body either returns or
\* finds a node and moves the lower bound of the remaining range strictly
\* up, the upper bound staying that of the original range; the loop bodies
\* run are at most the length of the original range and at most the source
\* line count plus one, and those that find a node at most the source line
\* count.
C6_Terminates ==
    /\ LoopBounds
    /\ [][/\ LoopBounds'
          /\ (pc = "extract" /\ iters' # iters) =>
                \/ pc' = "idle"
                \/ /\ next_range'.start > next_range.start
                   /\ next_range'.end = next_range.end
                   /\ next_range'.end = query.end
                   /\ RangeLen(next_range') < RangeLen(next_range)]_vars

\* a call returned after two loop bodies on a source of one line
C6_Witness == ExtractReturned /\ iters = 2 /\ LineCount = 1 /\ Len(visited) = 1

\* C7: extract_compounds_by returns the empty sequence without any tree
\* lookup when the source text is empty or the range is empty or inverted.
C7_EmptyInputsNoLookup ==
    (ExtractReturned /\ (code = <<>> \/ query.start >= query.end)) =>
        ret.regions = <<>> /\ lookups = 0 /\ iters = 0

\* a call with an inverted range on a source with a node on the range's start
C7_Witness ==
    /\ CompoundReturned /\ query.start > query.end
    /\ \E i \in 1..Len(tree.children) : Touches(tree.children[i], [start |-> query.start, end |-> query.start + 1])

\* C10: ranges() and extract_compound are idempotent reads: a ranges() call
\* with no add_line since the last one returns what that one returned, an
\* extract call returns what the last call of the same method returned, and
\* neither changes the touched lines, the source lines, the text or the tree.
C10_IdempotentReads ==
    /\ [][(ret'.op = "ranges" /\ last_ranges # None) => ret'.ranges = last_ranges[1]]_vars
    /\ [][(pc = "extract" /\ pc' = "idle" /\ last_extract[filter] # None)
             => ret'.regions = last_extract[filter][1].value]_vars
    /\ [][(ret'.op \in {"ranges", "compound", "functions"} \/ pc' = "extract")
             => /\ lines' = lines /\ code_lines' = code_lines /\ filename' = filename
                /\ code' = code /\ tree' = tree]_vars

\* a second ranges() call on touched lines that give more than one interval
C10_Witness == RangesReturned /\ ret.again /\ Len(ret.ranges) = 2

-----------------------------------------------------------------------------
(* Order and extent of the regions *)

\* the nodes the last call matched that pass its filter: one per region
PassesFilter(node) == filter_passes(filter, node)
PushedNodes == SelectSeq(visited, PassesFilter)

\* the bytes sb .. eb-1 of the text (byte i of the text holds the value i)
BytesOf(node) == [k \in 1..(node.eb - node.sb) |-> node.sb + k - 1]

\* every region is the complete byte span of its node
RegionsComplete ==
    /\ Len(ret.regions) = Len(PushedNodes)
    /\ \A i \in 1..Len(PushedNodes) : ret.regions[i] = BytesOf(PushedNodes[i])

\* each node lies after the one before it: it starts on a later line, after
\* the other's last byte, and no node comes twice
NodesInLineOrder(ns) ==
    /\ \A i \in 1..(Len(ns) - 1) :
          /\ start_position(ns[i]).row < start_position(ns[i + 1]).row
          /\ ns[i].eb <= ns[i + 1].sb
    /\ \A i, j \in 1..Len(ns) : i # j => ns[i] # ns[j]

\* C11: the regions extract_compounds_by returns are in strictly increasing
\* line order of their nodes, no node extracted twice, and each region is its
\* node's complete byte span [start byte, end byte), never clipped to the
\* range, also when the range covers only an interior line of the node.
C11_RegionsInLineOrderAndComplete ==
    ExtractReturned => RegionsComplete /\ NodesInLineOrder(PushedNodes)

-----------------------------------------------------------------------------
(* add_line *)

\* C12: add_line(n) only appends: a new ChangeSet has no touched lines, every
\* add_line puts its argument at the end and keeps the earlier entries in
\* their order (duplicates and out-of-order values included), so the touched
\* lines are the arguments in call order; it returns normally and leaves
\* filename and source lines as they were; nothing else changes the lines.
C12_AddLineOnlyAppends ==
    /\ lines = <<>>
    /\ [][/\ ret'.op = "add_line" =>
                /\ lines' = Append(lines, ret'.line)
                /\ ret'.status = "ok" /\ pc' = "idle"
                /\ filename' = filename /\ code_lines' = code_lines
          /\ lines' # lines => ret'.op = "add_line"]_vars

\* three add_line calls, the second argument below the first, the third a
\* duplicate of the second
C12_Witness ==
    /\ self = "ChangeSet" /\ ret.op = "add_line"
    /\ Len(lines) = 3 /\ lines[1] > lines[2] /\ lines[2] = lines[3] /\ ret.line = lines[3]

-----------------------------------------------------------------------------
(* has_intersection *)

NonEmpty(r) == r.start < r.end
Overlap(a, b) == a.start < b.end /\ b.start < a.end
Adjacent(a, b) == a.end = b.start \/ b.end = a.start

\* C13: for non-empty half-open intervals a and b, has_intersection(a, b) is
\* true exactly when a.start < b.end and b.start < a.end; the result is the
\* same with the arguments swapped; adjacent intervals do not intersect; two
\* empty intervals never intersect.
C13_IntersectionIsOverlap ==
    ret.op = "has_intersection" =>
        LET a == ret.first
            b == ret.second
            result == (ret.status = "true")
        IN  /\ (NonEmpty(a) /\ NonEmpty(b)) =>
                  /\ result <=> Overlap(a, b)
                  /\ result <=> has_intersection(b, a)
                  /\ Adjacent(a, b) => ~result
            /\ (is_empty(a) /\ is_empty(b)) => ~result

\* an overlap in which the first interval starts before the second, so only
\* the second containment test finds it
C13_Witness ==
    /\ ret.op = "has_intersection" /\ ret.status = "true"
    /\ ret.first = [start |-> 0, end |-> 2]
    /\ ret.second = [start |-> 1, end |-> 3]

-----------------------------------------------------------------------------
(* Only top-level nodes that touch the range are returned *)

TopLevelNodes == {tree.children[i] : i \in 1..Len(tree.children)}

\* C14: for a non-empty source (one that has top-level nodes) and a non-empty
\* range, every region returned by extract_compounds_by is the text of one
\* single top-level node whose rows share at least one line with the caller's
\* range: never the root (the whole file), never a node wholly before or
\* wholly after the range.
C14_OnlyTouchedTopLevelNodes ==
    (ExtractReturned /\ code # <<>> /\ tree.children # <<>> /\ ~is_empty(query)) =>
        \A k \in 1..Len(ret.regions) :
            \E node \in TopLevelNodes :
                /\ ret.regions[k] = TextOf(node)
                /\ Touches(node, query)

====
